---- MODULE Spec2Model ----
(***************************************************************************)
(* Model of findtext.py: the per-user usage quota (check_and_update_usage  *)
(* over a Firestore transaction), the permission e-mail, and the Flask     *)
(* identification route that calls them.                                   *)
(***************************************************************************)
EXTENDS Integers, Sequences, FiniteSets, TLC

(* ------------------------------ constants ------------------------------ *)

\* findtext.py:24
MAX_ATTEMPTS == 3

\* findtext.py:88: db.transaction() takes the Firestore client's default
\* max_attempts, the number of times the wrapper runs the body
MAX_TXN_ATTEMPTS == 5

(* ------------------------------- bounds -------------------------------- *)

\* request handlers that may run at the same time under Spec
NWorkers == 2
\* requests served in one behaviour of Spec
MaxRequests == 2
\* request handlers / requests of the contention scenario SpecConc
NConc == 4
\* requests served one after the other in SpecSeq
MaxSeqRequests == 5
\* out-of-band writes of `approved` in SpecAdmin
MaxAdminWrites == 1
\* requests served one after the other in SpecWeb
MaxWebRequests == 2

Workers == 1..NWorkers
ConcWorkers == 1..NConc
SeqWorkers == {1}
AllWorkers == Workers \cup ConcWorkers \cup SeqWorkers

(* ------------------------- strings and the form ------------------------ *)

\* Strings are sequences of one-character strings so that strip() can be
\* computed.
Whitespace == {" "}

KeyA == <<"a">>
KeyB == <<"b">>

\* values the client may post in the user_id field
RawIds == { <<>>, <<" ">>, KeyA, <<" ", "a", " ">>, KeyB }

\* request.form of POST /upload: the field may be missing altogether
Forms == [has_user_id : {TRUE}, user_id : RawIds]
           \cup [has_user_id : {FALSE}, user_id : {<<>>}]

\* document ids of the user_usage collection
DocIds == RawIds \ {<<>>}

RECURSIVE lstrip(_)
lstrip(s) == IF s # <<>> /\ Head(s) \in Whitespace THEN lstrip(Tail(s)) ELSE s

RECURSIVE rstrip(_)
rstrip(s) == IF s # <<>> /\ s[Len(s)] \in Whitespace
             THEN rstrip(SubSeq(s, 1, Len(s) - 1)) ELSE s

\* mutant of strip: the identifier is used as posted
strip_identity(s) == s

\* str.strip()
strip(s) == rstrip(lstrip(s))

\* request.form.get('user_id', '')
form_get_user_id(form) == IF form.has_user_id THEN form.user_id ELSE <<>>

(* ----------------------------- the documents --------------------------- *)

\* A document of the collection: `exists` is snapshot.exists, `has` the set
\* of fields the document carries; a field outside `has` holds its zero.
NoDoc == [exists |-> FALSE, has |-> {}, attempts |-> 0, approved |-> FALSE,
          last_use |-> 0]

\* documents a user may have before the first request of a behaviour
\* (written by earlier runs of the application or by the administrator)
InitDocs ==
    {NoDoc} \cup
    { [exists |-> TRUE, has |-> h,
       attempts |-> IF "attempts" \in h THEN a ELSE 0,
       approved |-> IF "approved" \in h THEN p ELSE FALSE,
       last_use |-> 0] :
         h \in SUBSET {"attempts", "approved"},
         a \in 0..MAX_ATTEMPTS, p \in BOOLEAN }

\* dict.get(field, default) on snapshot.to_dict()
get_attempts(data) == IF "attempts" \in data.has THEN data.attempts ELSE 0
get_approved(data) == IF "approved" \in data.has THEN data.approved ELSE FALSE

\* mutant of the merge write: the document is replaced (merge=False)
set_replace(doc, new_attempts, now) ==
    [exists |-> TRUE, has |-> {"attempts", "last_use"},
     attempts |-> new_attempts, approved |-> FALSE, last_use |-> now]

\* mutant of the write: only last_use is stamped
set_last_use_only(doc, new_attempts, now) ==
    [exists |-> TRUE, has |-> doc.has \cup {"last_use"},
     attempts |-> doc.attempts, approved |-> doc.approved, last_use |-> now]

\* mutant of the write: attempts is written, last_use is not
set_merge_no_stamp(doc, new_attempts, now) ==
    [exists |-> TRUE, has |-> doc.has \cup {"attempts"},
     attempts |-> new_attempts, approved |-> doc.approved,
     last_use |-> doc.last_use]

\* transaction.set(user_ref, {'attempts': .., 'last_use': SERVER_TIMESTAMP},
\*                 merge=True)
set_merge(doc, new_attempts, now) ==
    [exists |-> TRUE, has |-> doc.has \cup {"attempts", "last_use"},
     attempts |-> new_attempts, approved |-> doc.approved, last_use |-> now]

(* -------------------------------- state -------------------------------- *)

VARIABLES
    store,       \* db.collection('user_usage'): document id -> document
    update_time, \* the store's update time of each document
    clock,       \* the store's server time
    api_key,     \* SENDGRID_API_KEY is set
    pc,          \* position of each request handler
    form,        \* request.form of the request a handler serves
    frame,       \* locals of check_and_update_usage / update_in_transaction
    response,    \* what the handler returned to the client
    outbox,      \* e-mails the provider accepted, per user_id
    started,     \* requests served so far
    calls,       \* check_and_update_usage calls that returned, per user_id
    granted,     \* calls that returned (True, new_attempts), per user_id
    emailCalls,  \* send_permission_email invocations, per user_id
    store0,      \* the collection before the first request
    search,      \* the GET /search_page or POST /process_search request served
    invoked,     \* collaborator calls made for that request, in order
    admin_writes \* out-of-band writes of `approved` so far

vars == <<store, update_time, clock, api_key, pc, form, frame, response,
          outbox, started, calls, granted, emailCalls, store0,
          search, invoked, admin_writes>>

\* no search request
NoSearch == [route |-> "none"]

NoForm == [has_user_id |-> FALSE, user_id |-> <<>>, posted |-> FALSE]

NoFrame == [user_id |-> <<>>, gate |-> 0, tries |-> 0, snapshot |-> NoDoc,
            read_time |-> 0, write |-> FALSE,
            ret_allowed |-> FALSE, ret_attempts |-> 0,
            allowed |-> FALSE, attempts |-> 0,
            exc |-> "none", mail |-> "none"]

NoResponse == [kind |-> "none", user_id |-> <<>>, status |-> 0]

InitWith(docsA, docsB) ==
    /\ store \in { [k \in DocIds |-> IF k = KeyA THEN a
                                     ELSE IF k = KeyB THEN b ELSE NoDoc] :
                     a \in docsA, b \in docsB }
    /\ update_time = [k \in DocIds |-> 0]
    /\ clock = 0
    /\ api_key \in BOOLEAN
    /\ pc = [w \in AllWorkers |-> "idle"]
    /\ form = [w \in AllWorkers |-> NoForm]
    /\ frame = [w \in AllWorkers |-> NoFrame]
    /\ response = [w \in AllWorkers |-> NoResponse]
    /\ outbox = [k \in DocIds |-> 0]
    /\ started = 0
    /\ calls = [k \in DocIds |-> 0]
    /\ granted = [k \in DocIds |-> 0]
    /\ emailCalls = [k \in DocIds |-> 0]
    /\ store0 = store
    /\ search = [w \in AllWorkers |-> NoSearch]
    /\ invoked = [w \in AllWorkers |-> <<>>]
    /\ admin_writes = 0

\* existing non-approved documents with no attempt used yet
FreshDocs == { d \in InitDocs :
                 d.exists /\ ~get_approved(d) /\ get_attempts(d) = 0 }

\* documents of the second user
OtherDocs == {NoDoc} \cup { d \in FreshDocs : d.has = {"attempts", "approved"} }

Init == InitWith(InitDocs, OtherDocs)

(* ------------------- check_and_update_usage: the body ------------------ *)

\* mutant: the limit is tested before the approval
update_in_transaction_body_limit_first(snapshot) ==
    LET attempts == IF snapshot.exists THEN get_attempts(snapshot) ELSE 0
    IN  IF ~snapshot.exists
        THEN [raises |-> TRUE, write |-> FALSE, allowed |-> FALSE,
              attempts |-> 0]
        ELSE IF attempts < MAX_ATTEMPTS
        THEN [raises |-> FALSE, write |-> TRUE, allowed |-> TRUE,
              attempts |-> attempts + 1]
        ELSE IF get_approved(snapshot)
        THEN [raises |-> FALSE, write |-> FALSE, allowed |-> TRUE,
              attempts |-> 0]
        ELSE [raises |-> FALSE, write |-> FALSE, allowed |-> FALSE,
              attempts |-> attempts]

\* mutant: the limit test admits a record already at the limit
update_in_transaction_body_limit_inclusive(snapshot) ==
    LET attempts == IF snapshot.exists THEN get_attempts(snapshot) ELSE 0
    IN  IF ~snapshot.exists
        THEN [raises |-> TRUE, write |-> FALSE, allowed |-> FALSE,
              attempts |-> 0]
        ELSE IF get_approved(snapshot)
        THEN [raises |-> FALSE, write |-> FALSE, allowed |-> TRUE,
              attempts |-> 0]
        ELSE IF attempts <= MAX_ATTEMPTS
        THEN [raises |-> FALSE, write |-> TRUE, allowed |-> TRUE,
              attempts |-> attempts + 1]
        ELSE [raises |-> FALSE, write |-> FALSE, allowed |-> FALSE,
              attempts |-> attempts]

\* mutant: the denial stamps the document too
update_in_transaction_body_denial_writes(snapshot) ==
    LET attempts == IF snapshot.exists THEN get_attempts(snapshot) ELSE 0
    IN  IF ~snapshot.exists
        THEN [raises |-> TRUE, write |-> FALSE, allowed |-> FALSE,
              attempts |-> 0]
        ELSE IF get_approved(snapshot)
        THEN [raises |-> FALSE, write |-> FALSE, allowed |-> TRUE,
              attempts |-> 0]
        ELSE IF attempts < MAX_ATTEMPTS
        THEN [raises |-> FALSE, write |-> TRUE, allowed |-> TRUE,
              attempts |-> attempts + 1]
        ELSE [raises |-> FALSE, write |-> TRUE, allowed |-> FALSE,
              attempts |-> attempts]

\* update_in_transaction on the snapshot it read.  `raises` is the
\* UnboundLocalError of line 76: `data` is bound only when snapshot.exists.
update_in_transaction_body(snapshot) ==
    LET attempts == IF snapshot.exists THEN get_attempts(snapshot) ELSE 0
    IN  IF ~snapshot.exists
        THEN [raises |-> TRUE, write |-> FALSE, allowed |-> FALSE,
              attempts |-> 0]
        ELSE IF get_approved(snapshot)
        THEN [raises |-> FALSE, write |-> FALSE, allowed |-> TRUE,
              attempts |-> 0]
        ELSE IF attempts < MAX_ATTEMPTS
        THEN [raises |-> FALSE, write |-> TRUE, allowed |-> TRUE,
              attempts |-> attempts + 1]
        ELSE [raises |-> FALSE, write |-> FALSE, allowed |-> FALSE,
              attempts |-> attempts]

\* mutant: the commit never checks what it read (no isolation)
commit_conflict_never(read_time, current) == FALSE

\* the commit is aborted when the document changed after it was read
commit_conflict(read_time, current) == read_time # current

\* mutant: records beyond the limit notify too
notify_due_at_or_over(allowed, attempts) ==
    ~allowed /\ attempts >= MAX_ATTEMPTS

\* line 90: if not allowed and attempts == MAX_ATTEMPTS
notify_due(allowed, attempts) == ~allowed /\ attempts = MAX_ATTEMPTS

\* mutant: the value of send_permission_email is returned
usage_result_of_email(allowed, sent) == sent

\* line 94: return allowed (the value of send_permission_email is dropped)
usage_result(allowed, sent) == allowed

\* mutant: the handler fails open
except_result_open(exc) == TRUE

\* lines 96-99: except Exception: return False
except_result(exc) == FALSE

(* ------------------------ POST /upload, response ------------------------ *)

\* mutant: the branches are swapped
identification_response_swapped(user_id, allowed) ==
    IF ~allowed
    THEN [kind |-> "redirect_search_page", user_id |-> user_id, status |-> 302]
    ELSE [kind |-> "limit_error", user_id |-> <<>>, status |-> 200]

\* lines 132-140: redirect to the search form, or the limit error
identification_response(user_id, allowed) ==
    IF allowed
    THEN [kind |-> "redirect_search_page", user_id |-> user_id, status |-> 302]
    ELSE [kind |-> "limit_error", user_id |-> <<>>, status |-> 200]

\* check_and_update_usage returns f.allowed to handle_identification, which
\* answers the client; the request's locals are released.
Return(w, f) ==
    /\ frame' = [frame EXCEPT ![w] =
                   [NoFrame EXCEPT !.user_id = f.user_id, !.gate = f.gate,
                                   !.tries = f.tries,
                                   !.allowed = f.allowed, !.exc = f.exc,
                                   !.mail = f.mail]]
    /\ calls' = [calls EXCEPT ![f.user_id] = @ + 1]
    /\ granted' = [granted EXCEPT ![f.user_id] =
                     IF f.allowed /\ ~get_approved(f.snapshot)
                     THEN @ + 1 ELSE @]
    /\ response' = [response EXCEPT ![w] =
                      identification_response(f.user_id, f.allowed)]
    /\ form' = [form EXCEPT ![w] = NoForm]
    /\ pc' = [pc EXCEPT ![w] = "done"]

\* an exception reaches line 96
Except(w, f, exc) ==
    Return(w, [f EXCEPT !.exc = exc, !.allowed = except_result(exc)])

(* ------------------------- POST /upload, entry ------------------------- *)

Busy(w) == pc[w] \notin {"idle", "done"}

\* a request is taken by the first free handler of the pool
CanStart(w, pool, cap) ==
    /\ ~Busy(w)
    /\ started < cap
    /\ \A v \in pool : v < w => Busy(v)

\* handle_identification, blank identifier: the form is rendered again
handle_identification_blank(w, pool, cap, forms) ==
    /\ CanStart(w, pool, cap)
    /\ \E f \in forms :
         /\ strip(form_get_user_id(f)) = <<>>
         /\ form' = [form EXCEPT ![w] =
                       [has_user_id |-> f.has_user_id, user_id |-> f.user_id,
                        posted |-> TRUE]]
    /\ started' = started + 1
    /\ frame' = [frame EXCEPT ![w] = NoFrame]
    /\ response' = [response EXCEPT ![w] =
                      [kind |-> "id_form_error", user_id |-> <<>>,
                       status |-> 200]]
    /\ pc' = [pc EXCEPT ![w] = "done"]
    /\ search' = [search EXCEPT ![w] = NoSearch]
    /\ invoked' = [invoked EXCEPT ![w] = <<>>]
    /\ UNCHANGED <<store, update_time, clock, api_key, outbox, calls,
                   granted, emailCalls, store0, admin_writes>>

\* handle_identification, accepted identifier: check_and_update_usage is
\* entered and the transaction object is created
handle_identification_check(w, pool, cap, forms) ==
    /\ CanStart(w, pool, cap)
    /\ \E f \in forms :
         /\ strip(form_get_user_id(f)) # <<>>
         /\ form' = [form EXCEPT ![w] =
                       [has_user_id |-> f.has_user_id, user_id |-> f.user_id,
                        posted |-> TRUE]]
         /\ frame' = [frame EXCEPT ![w] =
                        [NoFrame EXCEPT !.user_id = strip(form_get_user_id(f)),
                                        !.gate = 1, !.tries = 1]]
    /\ started' = started + 1
    /\ response' = [response EXCEPT ![w] = NoResponse]
    /\ pc' = [pc EXCEPT ![w] = "txn_read"]
    /\ search' = [search EXCEPT ![w] = NoSearch]
    /\ invoked' = [invoked EXCEPT ![w] = <<>>]
    /\ UNCHANGED <<store, update_time, clock, api_key, outbox, calls,
                   granted, emailCalls, store0, admin_writes>>

(* ------------------ check_and_update_usage: transaction ----------------- *)

\* mutant: every user is kept in one document
user_ref_shared(user_id) == KeyA

\* line 61: db.collection(USERS_COLLECTION).document(user_id)
user_ref(user_id) == user_id

\* One run of update_in_transaction inside the transaction: read the
\* snapshot, decide, buffer the write.  An exception of the body is rolled
\* back by the wrapper, re-raised and caught at line 96.
update_in_transaction(w) ==
    /\ pc[w] = "txn_read"
    /\ LET k == user_ref(frame[w].user_id)
           r == update_in_transaction_body(store[k])
           f == [frame[w] EXCEPT !.snapshot = store[k],
                                 !.read_time = update_time[k],
                                 !.write = r.write,
                                 !.ret_allowed = r.allowed,
                                 !.ret_attempts = r.attempts]
       IN  IF r.raises
           THEN Except(w, f, "UnboundLocalError")
           ELSE /\ frame' = [frame EXCEPT ![w] = f]
                /\ pc' = [pc EXCEPT ![w] = "txn_commit"]
                /\ UNCHANGED <<calls, granted, response, form>>
    /\ UNCHANGED <<store, update_time, clock, api_key, outbox, started,
                   emailCalls, store0,
                   search, invoked, admin_writes>>

\* transaction._commit() succeeds: the document read is unchanged, the
\* buffered write is applied, and lines 88-94 run on the returned pair.
transaction_commit(w) ==
    /\ pc[w] = "txn_commit"
    /\ LET k == user_ref(frame[w].user_id)
           f == [frame[w] EXCEPT !.allowed = frame[w].ret_allowed,
                                 !.attempts = frame[w].ret_attempts]
       IN  /\ ~commit_conflict(frame[w].read_time, update_time[k])
           /\ IF frame[w].write
              THEN /\ store' = [store EXCEPT ![k] =
                         set_merge(store[k], frame[w].ret_attempts, clock + 1)]
                   /\ update_time' = [update_time EXCEPT ![k] = clock + 1]
                   /\ clock' = clock + 1
              ELSE UNCHANGED <<store, update_time, clock>>
           /\ IF notify_due(f.allowed, f.attempts)
              THEN /\ frame' = [frame EXCEPT ![w] = f]
                   /\ pc' = [pc EXCEPT ![w] = "email"]
                   /\ UNCHANGED <<calls, granted, response, form>>
              ELSE Return(w, f)
    /\ UNCHANGED <<api_key, outbox, started, emailCalls, store0,
                   search, invoked, admin_writes>>

\* transaction._commit() is aborted because the document changed after it
\* was read: the wrapper runs the body again, at most MAX_TXN_ATTEMPTS
\* times, then raises, which line 96 catches.
transaction_retry(w) ==
    /\ pc[w] = "txn_commit"
    /\ LET k == user_ref(frame[w].user_id)
       IN  /\ commit_conflict(frame[w].read_time, update_time[k])
           /\ IF frame[w].tries < MAX_TXN_ATTEMPTS
              THEN /\ frame' = [frame EXCEPT ![w].tries = @ + 1]
                   /\ pc' = [pc EXCEPT ![w] = "txn_read"]
                   /\ UNCHANGED <<calls, granted, response, form>>
              ELSE Except(w, frame[w], "Aborted")
    /\ UNCHANGED <<store, update_time, clock, api_key, outbox, started,
                   emailCalls, store0,
                   search, invoked, admin_writes>>

\* The store is unavailable: the read or the commit raises, nothing is
\* written, and line 96 catches the exception.
store_unavailable(w) ==
    /\ pc[w] \in {"txn_read", "txn_commit"}
    /\ Except(w, frame[w], "StoreError")
    /\ UNCHANGED <<store, update_time, clock, api_key, outbox, started,
                   emailCalls, store0,
                   search, invoked, admin_writes>>

(* ------------------------- send_permission_email ------------------------ *)

\* the call made at line 92, its outcome, and line 94
Emailed(w, outcome) ==
    /\ emailCalls' = [emailCalls EXCEPT ![frame[w].user_id] = @ + 1]
    /\ Return(w, [frame[w] EXCEPT
                    !.mail = outcome,
                    !.allowed = usage_result(frame[w].allowed,
                                             outcome = "sent")])
    /\ UNCHANGED <<store, update_time, clock, api_key, started, store0,
                   search, invoked, admin_writes>>

\* lines 36-38: no credential, nothing is sent
send_permission_email_no_key(w) ==
    /\ pc[w] = "email"
    /\ ~api_key
    /\ Emailed(w, "no_key")
    /\ UNCHANGED outbox

\* lines 50-54: the provider accepted the message
send_permission_email_sent(w) ==
    /\ pc[w] = "email"
    /\ api_key
    /\ Emailed(w, "sent")
    /\ outbox' = [outbox EXCEPT ![frame[w].user_id] = @ + 1]

\* lines 55-57: sg.send raised, the error is printed
send_permission_email_error(w) ==
    /\ pc[w] = "email"
    /\ api_key
    /\ Emailed(w, "error")
    /\ UNCHANGED outbox

(* ------------------- GET /, GET /search_page, search ------------------- *)

\* a form or query field: absent, or present with a string
Absent == [present |-> FALSE, value |-> <<>>]
Field(v) == [present |-> TRUE, value |-> v]

\* request.form.get(name, '') / request.form.get(name)
field_get(field, default) == IF field.present THEN field.value ELSE default

Digits == <<"0", "1", "2", "3", "4", "5", "6", "7", "8", "9">>
IsDigit(c) == \E i \in 1..10 : Digits[i] = c
DigitVal(c) == (CHOOSE i \in 1..10 : Digits[i] = c) - 1

RECURSIVE IntVal(_)
IntVal(ds) == IF ds = <<>> THEN 0
              ELSE 10 * IntVal(SubSeq(ds, 1, Len(ds) - 1)) + DigitVal(ds[Len(ds)])

\* the fraction digits as hundredths (inputs carry at most two of them)
FracVal(ds) == IF ds = <<>> THEN 0
               ELSE IF Len(ds) = 1 THEN 10 * DigitVal(ds[1])
               ELSE 10 * DigitVal(ds[1]) + DigitVal(ds[2])

\* float(s) on decimal literals: surrounding whitespace is dropped, an
\* optional sign, digits with at most one point and at least one digit.
\* The value is in hundredths; ok = FALSE stands for ValueError.
float(s) ==
    LET t == strip(s)
        signed == t # <<>> /\ t[1] \in {"+", "-"}
        u == IF signed THEN Tail(t) ELSE t
        dots == { i \in 1..Len(u) : u[i] = "." }
        ip == IF dots = {} THEN u
              ELSE SubSeq(u, 1, (CHOOSE i \in dots : TRUE) - 1)
        fp == IF dots = {} THEN <<>>
              ELSE SubSeq(u, (CHOOSE i \in dots : TRUE) + 1, Len(u))
        ok == /\ Cardinality(dots) <= 1
              /\ Len(ip) + Len(fp) > 0
              /\ \A i \in 1..Len(ip) : IsDigit(ip[i])
              /\ \A i \in 1..Len(fp) : IsDigit(fp[i])
        mag == IF ok THEN 100 * IntVal(ip) + FracVal(fp) ELSE 0
    IN  [ok |-> ok,
         value |-> IF signed /\ t[1] = "-" THEN 0 - mag ELSE mag]

\* lines 166 and 168: the default threshold 0.7, in hundredths
DEFAULT_THRESHOLD == 70

\* mutant: a malformed threshold becomes 0 and an empty one is parsed
similarity_threshold_no_fallback(threshold_input) ==
    IF threshold_input.present /\ float(threshold_input.value).ok
    THEN float(threshold_input.value).value
    ELSE 0

\* lines 165-168: float(threshold_input) if threshold_input else 0.7, and
\* 0.7 again on ValueError
similarity_threshold(threshold_input) ==
    IF threshold_input.present /\ threshold_input.value # <<>>
    THEN IF float(threshold_input.value).ok
         THEN float(threshold_input.value).value
         ELSE DEFAULT_THRESHOLD
    ELSE DEFAULT_THRESHOLD

\* mutant: the query is used as posted
get_search_text_raw(f) == field_get(f.search_text, <<>>)

\* line 157: request.form.get('search_text', '').strip()
get_search_text(f) == strip(field_get(f.search_text, <<>>))

\* one collaborator call
Call(fn, text, threshold) ==
    [fn |-> fn, search_text |-> text, similarity_threshold |-> threshold]

\* process_search on the posted form: the response and the collaborator
\* calls it made.  The placeholders return a fixed text and one match, so
\* the result table is always rendered.
process_search_run(f) ==
    LET search_text == get_search_text(f)
        threshold == similarity_threshold(f.similarity_threshold)
    IN  IF ~f.has_document \/ search_text = <<>>
        THEN [response |-> [kind |-> "results_error", user_id |-> <<>>,
                            status |-> 400],
              invoked |-> <<>>]
        ELSE [response |-> [kind |-> "results", user_id |-> <<>>,
                            status |-> 200, search_text |-> search_text,
                            threshold |-> threshold],
              invoked |-> << Call("extract_text_from_doc", <<>>, 0),
                             Call("run_semantic_search", search_text,
                                  threshold) >>]

\* values posted in search_text and similarity_threshold
SearchTexts == { Absent, Field(<<>>), Field(<<" ">>), Field(<<"q">>),
                 Field(<<" ", "q", " ">>) }
ThresholdInputs == { Absent, Field(<<>>), Field(<<"0", ".", "5">>),
                     Field(<<"o", "o", "p", "s">>), Field(<<"0">>),
                     Field(<<" ", "1", " ">>) }
SearchUsers == { Absent, Field(KeyA) }

\* request.form and request.files of POST /process_search
SearchForms ==
    [route : {"process_search"}, user_id : SearchUsers,
     search_text : SearchTexts, similarity_threshold : ThresholdInputs,
     has_document : BOOLEAN]

\* request.args of GET /search_page
SearchPages ==
    [route : {"search_page"}, user_id : SearchUsers,
     search_text : {Absent}, similarity_threshold : {Absent},
     has_document : {FALSE}]

\* a handler serves a request that never enters check_and_update_usage
Answer(w, req, resp, called) ==
    /\ started' = started + 1
    /\ search' = [search EXCEPT ![w] = req]
    /\ invoked' = [invoked EXCEPT ![w] = called]
    /\ response' = [response EXCEPT ![w] = resp]
    /\ form' = [form EXCEPT ![w] = NoForm]
    /\ frame' = [frame EXCEPT ![w] = NoFrame]
    /\ pc' = [pc EXCEPT ![w] = "done"]
    /\ UNCHANGED <<store, update_time, clock, api_key, outbox, calls,
                   granted, emailCalls, store0, admin_writes>>

\* lines 119-122: GET /
index(w, pool, cap) ==
    /\ CanStart(w, pool, cap)
    /\ Answer(w, [route |-> "index"],
              [kind |-> "id_form", user_id |-> <<>>, status |-> 200], <<>>)

\* mutant: the search page re-verifies the usage of the user_id it is given
search_page_reverifies(w, pool, cap) ==
    /\ CanStart(w, pool, cap)
    /\ \E q \in SearchPages :
         /\ search' = [search EXCEPT ![w] = q]
         /\ frame' = [frame EXCEPT ![w] =
                        [NoFrame EXCEPT !.user_id = field_get(q.user_id, KeyA),
                                        !.gate = 1, !.tries = 1]]
    /\ started' = started + 1
    /\ response' = [response EXCEPT ![w] = NoResponse]
    /\ pc' = [pc EXCEPT ![w] = "txn_read"]
    /\ invoked' = [invoked EXCEPT ![w] = <<>>]
    /\ form' = [form EXCEPT ![w] = NoForm]
    /\ UNCHANGED <<store, update_time, clock, api_key, outbox, calls,
                   granted, emailCalls, store0, admin_writes>>

\* lines 143-149: GET /search_page renders the form with the user_id given
search_page(w, pool, cap) ==
    /\ CanStart(w, pool, cap)
    /\ \E q \in SearchPages :
           Answer(w, q,
                  [kind |-> "search_form",
                   user_id |-> field_get(q.user_id, <<>>), status |-> 200],
                  <<>>)

\* lines 152-188: POST /process_search
process_search(w, pool, cap) ==
    /\ CanStart(w, pool, cap)
    /\ \E f \in SearchForms :
           Answer(w, f, process_search_run(f).response,
                  process_search_run(f).invoked)

(* ---------------------------- specifications ---------------------------- *)

\* the steps of a handler once its request is accepted
Serve(w) ==
    \/ update_in_transaction(w)
    \/ transaction_commit(w)
    \/ send_permission_email_no_key(w)
    \/ send_permission_email_sent(w)
    \/ send_permission_email_error(w)

\* concurrent handlers over a store that may fail
Next ==
    \E w \in Workers :
        \/ handle_identification_blank(w, Workers, MaxRequests, Forms)
        \/ handle_identification_check(w, Workers, MaxRequests, Forms)
        \/ Serve(w)
        \/ transaction_retry(w)
        \/ store_unavailable(w)

Spec == Init /\ [][Next]_vars

\* one handler, requests one after the other, the store available
NextSeq ==
    \E w \in SeqWorkers :
        \/ handle_identification_blank(w, SeqWorkers, MaxSeqRequests, Forms)
        \/ handle_identification_check(w, SeqWorkers, MaxSeqRequests, Forms)
        \/ Serve(w)

SpecSeq == Init /\ [][NextSeq]_vars

\* the requests of the contention scenario all name the same user
ConcForms == { f \in Forms : f.user_id = KeyA }

InitConc == InitWith(FreshDocs, {NoDoc})

\* NConc requests for one user racing, the store available
NextConc ==
    \E w \in ConcWorkers :
        \/ handle_identification_check(w, ConcWorkers, NConc, ConcForms)
        \/ Serve(w)
        \/ transaction_retry(w)

SpecConc == InitConc /\ [][NextConc]_vars

\* concurrent handlers for both users, the store available
NextAvail ==
    \E w \in Workers :
        \/ handle_identification_blank(w, Workers, MaxRequests, Forms)
        \/ handle_identification_check(w, Workers, MaxRequests, Forms)
        \/ Serve(w)
        \/ transaction_retry(w)

SpecAvail == Init /\ [][NextAvail]_vars

\* Records around the limit, among them records whose attempts an
\* administrator has set beyond MAX_ATTEMPTS in the Firestore console.
LimitDocs ==
    { [exists |-> TRUE, has |-> h, attempts |-> a,
       approved |-> IF "approved" \in h THEN p ELSE FALSE,
       last_use |-> 0] :
         h \in {{"attempts"}, {"attempts", "approved"}},
         a \in (MAX_ATTEMPTS - 1)..(MAX_ATTEMPTS + 1), p \in BOOLEAN }

\* the second user stands at the limit
AtLimitDocs ==
    { d \in LimitDocs : d.attempts = MAX_ATTEMPTS /\ "approved" \notin d.has }

InitLimit == InitWith(LimitDocs, AtLimitDocs)

\* the quota check on records at, below and beyond the limit
SpecLimit == InitLimit /\ [][Next]_vars

\* Lines 75-76 read `approved`; nothing in the program writes it.  The
\* administrator sets it on an existing record from outside, at any moment:
\* an update of that one field, which gives the document a new update_time.
admin_set_approved(k, b) ==
    /\ admin_writes < MaxAdminWrites
    /\ store[k].exists
    /\ store' = [store EXCEPT ![k] =
                   [@ EXCEPT !.has = @ \cup {"approved"}, !.approved = b]]
    /\ update_time' = [update_time EXCEPT ![k] = clock + 1]
    /\ clock' = clock + 1
    /\ admin_writes' = admin_writes + 1
    /\ UNCHANGED <<api_key, pc, form, frame, response, outbox, started,
                   calls, granted, emailCalls, store0, search, invoked>>

InitAdmin == InitWith(InitDocs, {NoDoc})

\* calls for one user racing with the administrator
NextAdmin ==
    \/ \E w \in Workers :
          \/ handle_identification_check(w, Workers, MaxRequests, ConcForms)
          \/ Serve(w)
          \/ transaction_retry(w)
    \/ \E b \in BOOLEAN : admin_set_approved(KeyA, b)

SpecAdmin == InitAdmin /\ [][NextAdmin]_vars

\* the quota states a search request can meet: no record, a record one
\* below the limit or at it, approved or not
WebDocs ==
    {NoDoc} \cup { d \in InitDocs : /\ d.has = {"attempts", "approved"}
                                   /\ d.attempts >= MAX_ATTEMPTS - 1 }

InitWeb == InitWith(WebDocs, {NoDoc})

\* every route, one handler serving the requests one after the other
NextWeb ==
    \E w \in SeqWorkers :
        \/ index(w, SeqWorkers, MaxWebRequests)
        \/ handle_identification_blank(w, SeqWorkers, MaxWebRequests, Forms)
        \/ handle_identification_check(w, SeqWorkers, MaxWebRequests, Forms)
        \/ Serve(w)
        \/ search_page(w, SeqWorkers, MaxWebRequests)
        \/ process_search(w, SeqWorkers, MaxWebRequests)

SpecWeb == InitWeb /\ [][NextWeb]_vars

(* -------------------------------- claims ------------------------------- *)

\* the stored attempts as the application reads them
Attempts(k) == get_attempts(store[k])
Attempts0(k) == get_attempts(store0[k])

IsBlank(s) == \A i \in 1..Len(s) : s[i] \in Whitespace

\* handler w has finished a request that went through the quota check
Checked(w) == pc[w] = "done" /\ frame[w].gate > 0

\* handler w leaves the transaction in this step without an exception
Commits(w) ==
    /\ pc[w] = "txn_commit"
    /\ pc'[w] \in {"email", "done"}
    /\ frame'[w].exc = "none"

\* no call for document k is in flight
Quiescent(k) == \A w \in AllWorkers : Busy(w) => frame[w].user_id # k

\* C1: for a user with no prior record, sequential calls number 1..MAX_ATTEMPTS
\* return allowed=true and leave attempts at 1..MAX_ATTEMPTS, and call number
\* MAX_ATTEMPTS+1 returns allowed=false with attempts still MAX_ATTEMPTS.
C1_FreshUserCounts ==
    \A w \in SeqWorkers, k \in DocIds :
        (Checked(w) /\ frame[w].user_id = k /\ ~store0[k].exists) =>
            /\ calls[k] <= MAX_ATTEMPTS =>
                 (frame[w].allowed /\ store[k].exists /\ Attempts(k) = calls[k])
            /\ calls[k] = MAX_ATTEMPTS + 1 =>
                 (~frame[w].allowed /\ Attempts(k) = MAX_ATTEMPTS)

\* C2: over sequential calls of a non-approved user who starts below the
\* limit, reaches it and keeps being denied, send_permission_email is invoked
\* exactly once: never a second time.
C2_NotifiedOnce ==
    \A k \in DocIds :
        (store0[k].exists /\ ~get_approved(store0[k])
           /\ Attempts0(k) < MAX_ATTEMPTS) => emailCalls[k] <= 1

\* C3: with NConc > MAX_ATTEMPTS concurrent calls for one non-approved user
\* whose record starts at attempts = 0, never more than MAX_ATTEMPTS calls
\* return allowed=true, and once all calls have completed exactly
\* MAX_ATTEMPTS of them have.
C3_ConcurrentQuota ==
    /\ granted[KeyA] <= MAX_ATTEMPTS
    /\ (started = NConc /\ \A w \in ConcWorkers : ~Busy(w)) =>
           (calls[KeyA] = NConc /\ granted[KeyA] = MAX_ATTEMPTS)

\* C3 witness: all the calls are over, one of them after a retried
\* transaction, and exactly MAX_ATTEMPTS were allowed.
C3_Witness ==
    /\ NConc > MAX_ATTEMPTS
    /\ started = NConc
    /\ \A w \in ConcWorkers : pc[w] = "done"
    /\ \E w \in ConcWorkers : frame[w].tries > 1
    /\ granted[KeyA] = MAX_ATTEMPTS
    /\ Attempts(KeyA) = MAX_ATTEMPTS

\* C4: a call whose transaction read approved=true returns allowed=true
\* whatever the stored attempts, changes no document and sends no
\* notification.
C4_ApprovedBypass ==
    [][\A w \in Workers :
         (Commits(w) /\ get_approved(frame[w].snapshot)) =>
             /\ pc'[w] = "done"
             /\ frame'[w].allowed
             /\ response'[w].kind = "redirect_search_page"
             /\ store' = store
             /\ emailCalls' = emailCalls
             /\ outbox' = outbox]_vars

\* C4 witness: an approved user at the limit has been let through.
C4_Witness ==
    \E w \in Workers :
        /\ Checked(w) /\ frame[w].allowed /\ frame[w].exc = "none"
        /\ get_approved(store[frame[w].user_id])
        /\ Attempts(frame[w].user_id) >= MAX_ATTEMPTS
        /\ store = store0

\* C5: when the read, the body or the commit of the transaction raises,
\* check_and_update_usage returns False to its caller, the collection is
\* unchanged and no notification is attempted.
C5_FailClosed ==
    [][\A w \in Workers :
         (Busy(w) /\ frame'[w].exc # "none") =>
             /\ pc'[w] = "done"
             /\ ~frame'[w].allowed
             /\ response'[w].kind = "limit_error"
             /\ store' = store
             /\ emailCalls' = emailCalls
             /\ outbox' = outbox]_vars

\* C5 witness: a call was denied because the store was unavailable.
C5_Witness ==
    \E w \in Workers :
        /\ Checked(w) /\ frame[w].exc = "StoreError"
        /\ ~frame[w].allowed
        /\ store0[frame[w].user_id].exists
        /\ Attempts0(frame[w].user_id) < MAX_ATTEMPTS

\* C6: the stored attempts never decrease, and whenever no call for the
\* user is in flight they equal the initial value plus the number of calls
\* that returned allowed=true for the user while not approved.
C6_CountsAllowedCalls ==
    [][\A k \in DocIds :
         /\ get_attempts(store'[k]) >= Attempts(k)
         /\ Quiescent(k)' =>
              get_attempts(store'[k]) = Attempts0(k) + granted'[k]]_vars

\* C6 witness: two calls for one user raced, both were allowed, and the
\* counter went up by two.
C6_Witness ==
    \E k \in DocIds :
        /\ Quiescent(k)
        /\ granted[k] = 2
        /\ Attempts(k) = Attempts0(k) + 2
        /\ \E w \in Workers : Checked(w) /\ frame[w].user_id = k
                                /\ frame[w].tries > 1

\* C7: a call denied because the non-approved user's attempts are already
\* at or above MAX_ATTEMPTS writes nothing: the collection is the same
\* before and after its transaction.
C7_DenialWritesNothing ==
    [][\A w \in Workers :
         (Commits(w) /\ ~frame[w].ret_allowed
            /\ frame[w].ret_attempts >= MAX_ATTEMPTS) =>
             /\ store' = store
             /\ update_time' = update_time]_vars

\* C7 witness: a denied call has gone through its transaction.
C7_Witness ==
    \E w \in Workers :
        /\ pc[w] = "email"
        /\ ~frame[w].allowed
        /\ frame[w].snapshot = store[frame[w].user_id]
        /\ Attempts(frame[w].user_id) = MAX_ATTEMPTS

\* C8: whatever send_permission_email does (no credential, send raises,
\* send succeeds), the denied call returns allowed=false without an
\* exception and the collection is left as it was.
C8_NotificationOutcomeIgnored ==
    [][\A w \in Workers :
         (pc[w] = "email" /\ pc'[w] # "email") =>
             /\ pc'[w] = "done"
             /\ frame'[w].mail \in {"no_key", "error", "sent"}
             /\ frame'[w].exc = "none"
             /\ ~frame'[w].allowed
             /\ response'[w].kind = "limit_error"
             /\ store' = store]_vars

\* C8 witness: one denied call whose e-mail was accepted and one whose
\* send raised, both answered with the limit error.
C8_Witness ==
    \E v, w \in Workers :
        /\ Checked(v) /\ frame[v].mail = "sent" /\ ~frame[v].allowed
        /\ Checked(w) /\ frame[w].mail = "error" /\ ~frame[w].allowed

\* C9: a request with a non-blank identifier calls the gate exactly once,
\* and is redirected to the search form with that identifier exactly when
\* the gate returned True; otherwise the limit error is rendered.
C9_RedirectIffAllowed ==
    \A w \in Workers :
        (pc[w] = "done" /\ frame[w].user_id # <<>>) =>
            /\ frame[w].gate = 1
            /\ frame[w].allowed =>
                 response[w] = [kind |-> "redirect_search_page",
                                user_id |-> frame[w].user_id, status |-> 302]
            /\ ~frame[w].allowed => response[w].kind = "limit_error"

\* C9 witness: one request was redirected and another got the limit error.
C9_Witness ==
    \E v, w \in Workers :
        /\ Checked(v) /\ frame[v].allowed
        /\ response[v].kind = "redirect_search_page"
        /\ Checked(w) /\ ~frame[w].allowed /\ frame[w].exc = "none"
        /\ response[w].kind = "limit_error"

\* the handler that takes the next request
Starter == CHOOSE w \in Workers : ~Busy(w) /\ \A v \in Workers : v < w => Busy(v)

\* C10: a request whose user_id is missing, empty or whitespace is answered
\* with the identification form again; check_and_update_usage is not
\* called, no document is created or changed, no notification is sent.
C10_BlankConsumesNothing ==
    [][(started' # started /\ IsBlank(form_get_user_id(form'[Starter]))) =>
          /\ pc'[Starter] = "done"
          /\ response'[Starter].kind = "id_form_error"
          /\ frame'[Starter].gate = 0
          /\ store' = store
          /\ calls' = calls
          /\ emailCalls' = emailCalls
          /\ outbox' = outbox]_vars

\* C10 witness: a whitespace-only identifier was answered with the form.
C10_Witness ==
    \E w \in Workers :
        /\ pc[w] = "done"
        /\ form[w].posted /\ form[w].has_user_id /\ form[w].user_id = <<" ">>
        /\ response[w].kind = "id_form_error"
        /\ store = store0

(* ------------------------------ search claims --------------------------- *)

\* the handler answered a POST /process_search
Searched(w) == pc[w] = "done" /\ search[w].route = "process_search"

\* the posted query holds a character that is not whitespace
HasQuery(f) ==
    /\ f.search_text.present
    /\ \E i \in 1..Len(f.search_text.value) :
           f.search_text.value[i] \notin Whitespace

\* C11: process_search calls extract_text_from_doc and then
\* run_semantic_search, in that order, exactly when a document was uploaded
\* and the query is non-empty after trimming; otherwise it answers with
\* status 400 and calls neither.
C11_SearchNeedsDocumentAndQuery ==
    \A w \in AllWorkers :
        Searched(w) =>
            IF search[w].has_document /\ HasQuery(search[w])
            THEN /\ Len(invoked[w]) = 2
                 /\ invoked[w][1].fn = "extract_text_from_doc"
                 /\ invoked[w][2].fn = "run_semantic_search"
                 /\ response[w].status = 200
            ELSE /\ invoked[w] = <<>>
                 /\ response[w].status = 400

\* C11 witness: a padded query with a document reached both collaborators,
\* in order.
C11_Witness ==
    \E w \in AllWorkers :
        /\ Searched(w)
        /\ search[w].has_document
        /\ search[w].search_text = Field(<<" ", "q", " ">>)
        /\ invoked[w][1].fn = "extract_text_from_doc"
        /\ invoked[w][2].fn = "run_semantic_search"
        /\ invoked[w][2].search_text = <<"q">>

(* ---------------------------- claims C12 .. C19 ------------------------- *)

Keys == DOMAIN store

MinOf(a, b) == IF a < b THEN a ELSE b

\* something recorded for user k changes in this step
Touches(k) ==
    \/ store'[k] # store[k]
    \/ update_time'[k] # update_time[k]
    \/ calls'[k] # calls[k]
    \/ granted'[k] # granted[k]
    \/ emailCalls'[k] # emailCalls[k]
    \/ outbox'[k] # outbox[k]

\* handler w, busy with a call for user k, takes this step
StepsFor(w, k) == Busy(w) /\ frame[w].user_id = k /\ pc'[w] # pc[w]

\* what the calls made for k alone amount to, given k's record at the start
GrantedAlone(k) ==
    IF store0[k].exists /\ ~get_approved(store0[k])
    THEN MinOf(calls[k], MAX_ATTEMPTS - Attempts0(k))
    ELSE 0

\* C12: calls for different users are independent.  Only a call for k
\* touches what is recorded for k, the snapshot a call decides on is the
\* record of its own user, and once the calls for k have returned, their
\* outcome is what they would have been without any call for another user.
C12_UsersIndependent ==
    /\ [][/\ \A k \in Keys :
                Touches(k) => \E w \in AllWorkers : StepsFor(w, k)
          /\ \A w \in AllWorkers :
                (pc[w] = "txn_read" /\ pc'[w] = "txn_commit") =>
                    frame'[w].snapshot = store[frame[w].user_id]]_vars
    /\ [](\A k \in Keys :
             Quiescent(k) =>
                 /\ granted[k] = GrantedAlone(k)
                 /\ Attempts(k) = Attempts0(k) + granted[k]
                 /\ store[k].exists = store0[k].exists)

\* C12 witness: calls for both users were in flight together and both
\* users' calls have returned, each with the outcome of its own record.
C12_Witness ==
    /\ calls[KeyA] >= 1 /\ calls[KeyB] >= 1
    /\ Quiescent(KeyA) /\ Quiescent(KeyB)
    /\ granted[KeyA] = 1 /\ granted[KeyB] >= 1
    /\ \E v, w \in Workers :
          /\ v # w
          /\ Checked(v) /\ frame[v].user_id = KeyA
          /\ Checked(w) /\ frame[w].user_id = KeyB

\* the handler's search went through to the SimilarityEngine
Engine(w) ==
    /\ Searched(w)
    /\ Len(invoked[w]) = 2
    /\ invoked[w][2].fn = "run_semantic_search"

\* C13: the threshold handed to the SimilarityEngine is the parsed value
\* when similarity_threshold parses as a number and 0.7 when it is
\* missing, empty or malformed; a malformed value never produces an error
\* response.
C13_ThresholdOrDefault ==
    \A w \in AllWorkers :
        Searched(w) /\ search[w].has_document /\ HasQuery(search[w]) =>
            LET t == search[w].similarity_threshold
            IN  /\ Engine(w)
                /\ response[w].kind = "results"
                /\ invoked[w][2].similarity_threshold =
                      IF t.present /\ float(t.value).ok
                      THEN float(t.value).value
                      ELSE DEFAULT_THRESHOLD
                /\ t = Field(<<"0", ".", "5">>) =>
                      invoked[w][2].similarity_threshold = 50
                /\ t = Field(<<"0">>) =>
                      invoked[w][2].similarity_threshold = 0
                /\ t \in {Absent, Field(<<>>), Field(<<"o", "o", "p", "s">>)} =>
                      invoked[w][2].similarity_threshold = 70

\* C13 witness: the threshold "oops" was searched with 0.7.
C13_Witness ==
    \E w \in AllWorkers :
        /\ Engine(w)
        /\ search[w].similarity_threshold = Field(<<"o", "o", "p", "s">>)
        /\ invoked[w][2].similarity_threshold = DEFAULT_THRESHOLD
        /\ response[w].status = 200

\* C14: for an existing record that is not approved (approved false or
\* absent) and whose attempts is k < MAX_ATTEMPTS (a missing attempts field
\* counts as 0), a call whose transaction commits returns allowed, sets
\* attempts to k + 1 and stamps last_use, and it does so in the one commit
\* that validated the record it read.
C14_IncrementBelowLimit ==
    [][\A w \in AllWorkers :
          LET k == frame[w].user_id
              d == store[k]
          IN  (/\ Commits(w)
               /\ d.exists /\ ~get_approved(d)
               /\ get_attempts(d) < MAX_ATTEMPTS) =>
                  /\ frame[w].snapshot = d
                  /\ pc'[w] = "done"
                  /\ frame'[w].allowed
                  /\ "attempts" \in store'[k].has
                  /\ store'[k].attempts = get_attempts(d) + 1
                  /\ "last_use" \in store'[k].has
                  /\ store'[k].last_use = clock'
                  /\ clock' > clock
                  /\ get_approved(store'[k]) = get_approved(d)
                  /\ granted'[k] = granted[k] + 1]_vars

\* C14 witness: a record without the attempts field was counted to 1 and
\* stamped by an allowed call.
C14_Witness ==
    \E w \in Workers :
        /\ Checked(w) /\ frame[w].allowed /\ frame[w].user_id = KeyA
        /\ store0[KeyA].exists /\ "attempts" \notin store0[KeyA].has
        /\ ~get_approved(store0[KeyA])
        /\ "attempts" \in store[KeyA].has /\ store[KeyA].attempts = 1
        /\ "last_use" \in store[KeyA].has /\ store[KeyA].last_use = clock
        /\ clock > 0

\* C15: send_permission_email is invoked only inside a call that returns
\* allowed = false and whose transaction reported attempts exactly
\* MAX_ATTEMPTS: never in an allowed call, for an approved user, after a
\* store error, or when the stored attempts is greater than MAX_ATTEMPTS.
C15_NotifyOnlyAtLimit ==
    [][/\ \A w \in AllWorkers :
             (pc'[w] = "email" /\ pc[w] # "email") =>
                 LET d == store[frame[w].user_id]
                 IN  /\ pc[w] = "txn_commit"
                     /\ d.exists /\ ~get_approved(d)
                     /\ get_attempts(d) = MAX_ATTEMPTS
                     /\ ~frame'[w].allowed
                     /\ frame'[w].attempts = MAX_ATTEMPTS
                     /\ frame'[w].exc = "none"
       /\ \A k \in Keys :
             emailCalls'[k] # emailCalls[k] =>
                 \E w \in AllWorkers :
                     /\ pc[w] = "email" /\ frame[w].user_id = k
                     /\ pc'[w] = "done"
                     /\ ~frame'[w].allowed /\ frame'[w].exc = "none"
                     /\ response'[w].kind = "limit_error"
                     /\ emailCalls'[k] = emailCalls[k] + 1]_vars

\* C15 witness: a call at the limit invoked the notification, and a denied
\* call on a record beyond the limit returned without invoking it.
C15_Witness ==
    \E v, w \in Workers :
        /\ Checked(v) /\ frame[v].user_id = KeyB /\ ~frame[v].allowed
        /\ frame[v].mail # "none" /\ emailCalls[KeyB] = 1
        /\ Checked(w) /\ frame[w].user_id = KeyA /\ ~frame[w].allowed
        /\ frame[w].exc = "none" /\ frame[w].mail = "none"
        /\ Attempts(KeyA) = MAX_ATTEMPTS + 1 /\ ~get_approved(store[KeyA])
        /\ emailCalls[KeyA] = 0

\* C16: no call changes `approved`.  The increment writes only attempts and
\* last_use, merged into the record, so a change of `approved` made out of
\* band, even between a call's read and its commit, is never overwritten or
\* reset by the program.
C16_ApprovedNeverWritten ==
    [][admin_writes' = admin_writes =>
          \A k \in Keys :
              /\ get_approved(store'[k]) = get_approved(store[k])
              /\ ("approved" \in store'[k].has) = ("approved" \in store[k].has)
              /\ store'[k] # store[k] =>
                    /\ store'[k].has = store[k].has \cup {"attempts", "last_use"}
                    /\ store'[k].approved = store[k].approved]_vars

\* C16 witness: the administrator approved the user between a call's read
\* and its commit; the call ran again, was allowed as approved, and wrote
\* nothing.
C16_Witness ==
    \E w \in Workers :
        /\ Checked(w) /\ frame[w].user_id = KeyA /\ frame[w].allowed
        /\ frame[w].tries > 1
        /\ calls[KeyA] = 1 /\ admin_writes = 1
        /\ ~get_approved(store0[KeyA]) /\ get_approved(store[KeyA])
        /\ Attempts(KeyA) = Attempts0(KeyA)

\* C17: the stored attempts of a non-approved user never exceeds
\* MAX_ATTEMPTS: from a record that is absent or has attempts at most
\* MAX_ATTEMPTS, every state reached by sequential or concurrent requests
\* has 0 <= attempts <= MAX_ATTEMPTS.
C17_AttemptsBounded ==
    \A k \in Keys :
        ~get_approved(store[k]) =>
            /\ 0 <= Attempts(k) /\ Attempts(k) <= MAX_ATTEMPTS
            /\ 0 <= store[k].attempts /\ store[k].attempts <= MAX_ATTEMPTS

\* C17 witness: two calls read the record one below the limit; one counted
\* it to the limit, the other ran again and was denied.
C17_Witness ==
    \E v, w \in Workers :
        /\ v # w
        /\ Attempts0(KeyA) = MAX_ATTEMPTS - 1 /\ ~get_approved(store[KeyA])
        /\ Attempts(KeyA) = MAX_ATTEMPTS
        /\ Checked(v) /\ frame[v].user_id = KeyA /\ frame[v].allowed
        /\ Checked(w) /\ frame[w].user_id = KeyA /\ ~frame[w].allowed
        /\ frame[w].tries > 1 /\ frame[w].exc = "none"

\* the request taken in this step is a GET /search_page or a
\* POST /process_search
SearchStep ==
    /\ started' # started
    /\ search'[Starter].route \in {"search_page", "process_search"}

\* C18: the quota is checked and consumed only in the identification step.
\* GET /search_page and POST /process_search never call
\* check_and_update_usage, never read or change a usage record and never
\* send a notification, whatever user_id they are given and whatever the
\* quota state of that user.
C18_SearchIgnoresQuota ==
    [][SearchStep =>
          /\ pc'[Starter] = "done"
          /\ frame'[Starter].gate = 0
          /\ frame'[Starter].snapshot = NoDoc
          /\ store' = store
          /\ update_time' = update_time
          /\ calls' = calls
          /\ granted' = granted
          /\ emailCalls' = emailCalls
          /\ outbox' = outbox
          /\ response'[Starter].kind \in
                {"search_form", "results", "results_error"}]_vars

\* C18 witness: after the identification of the user was refused at the
\* limit, a search posted with that user_id was carried out.
C18_Witness ==
    \E w \in AllWorkers :
        /\ Engine(w)
        /\ search[w].user_id = Field(KeyA)
        /\ store[KeyA].exists /\ ~get_approved(store[KeyA])
        /\ Attempts(KeyA) = MAX_ATTEMPTS
        /\ calls[KeyA] = 1 /\ granted[KeyA] = 0
        /\ response[w].kind = "results"

\* C19: whenever the identification step renders the limit-exceeded error,
\* which says that a request for extended permission has been sent to the
\* administrator, a notification for that user_id has been dispatched
\* successfully, in that request or an earlier one.  Stated for users whose
\* record exists, so that the call went through the quota check proper.
C19_LimitErrorMeansNotified ==
    \A w \in AllWorkers :
        (/\ Checked(w)
         /\ response[w].kind = "limit_error"
         /\ store0[frame[w].user_id].exists) =>
            outbox[frame[w].user_id] >= 1

====
